---- MODULE Spec2Model ----
(***************************************************************************)
(* Model of gears.normalize: the column resolver and validity checker of   *)
(* schema.py and the normalize_gps pipeline of gps.py.                      *)
(*                                                                         *)
(* Representation.  A text is a sequence of one-character strings.  A     *)
(* value that may be missing is a record tagged by its field k: Na, Num,   *)
(* Str, Dt (a wall-clock time read from a cell or a header) or the         *)
(* formatted timestamp built by strftime.  Times are counted in ticks of   *)
(* 1/TicksPerSec second from midnight of a reference day.  speed_mps is    *)
(* carried in units of 1/18 m/s, which makes the division by 3.6 exact.    *)
(* The inter-ping percentile of the report is left out: no property below  *)
(* reads it.  The zones of input_tz are fixed-offset zones, a header start *)
(* value is a readable time or empty, and a timestamp cell is a naive      *)
(* wall-clock time or unreadable.                                          *)
(***************************************************************************)
EXTENDS Integers, Sequences, FiniteSets, TLC

VARIABLES
    file,           \* the input file: suffix, stem, header block, columns, rows
    mapping,        \* the mapping configuration: time, units, columns
    pc,             \* position in normalize_gps (or in the resolver harness)
    header_kv,      \* header key/value pairs read from the file
    resolved,       \* target -> resolved source column
    use_stopwatch,  \* timestamp strategy
    df,             \* the frame under construction
    before,         \* len(df) before cleaning
    table,          \* the returned table (None until returned)
    report,         \* the returned report (None until returned)
    error,          \* the exception raised (NoError while none)
    src_cols,       \* resolver harness: argument src_cols
    candidates,     \* resolver harness: argument candidates
    ret             \* resolver harness: value returned

vars == <<file, mapping, pc, header_kv, resolved, use_stopwatch, df, before,
          table, report, error, src_cols, candidates, ret>>

(***************************************************************************)
(* Bounds of the model.                                                    *)
(***************************************************************************)
MaxRows == 2
MaxCols == 3
MaxAliases == 2
TicksPerSec == 10

(***************************************************************************)
(* Values.                                                                 *)
(***************************************************************************)
None == [k |-> "None"]
Na == [k |-> "na"]
Num(n) == [k |-> "num", n |-> n]
Str(s) == [k |-> "str", s |-> s]
Dt(t) == [k |-> "dt", t |-> t]

IsNa(c) == c.k = "na"

\* key in d, for a dict d.
Has(d, key) == \E x \in DOMAIN d : x = key

(***************************************************************************)
(* Characters and texts.                                                   *)
(***************************************************************************)
Digits == <<"0","1","2","3","4","5","6","7","8","9">>

\* Characters in code point order: space, digits, upper case, "_", lower case.
CodeOrder ==
    <<" ">> \o Digits
    \o <<"A","B","C","D","E","F","G","H","I","J","K","L","M",
         "N","O","P","Q","R","S","T","U","V","W","X","Y","Z">>
    \o <<"_">>
    \o <<"a","b","c","d","e","f","g","h","i","j","k","l","m",
         "n","o","p","q","r","s","t","u","v","w","x","y","z">>

Ord(c) == CHOOSE i \in 1..Len(CodeOrder) : CodeOrder[i] = c

\* str.lower() on one character, and on a text.
LowerOf ==
    ("A" :> "a") @@ ("B" :> "b") @@ ("C" :> "c") @@ ("D" :> "d") @@ ("E" :> "e")
    @@ ("F" :> "f") @@ ("G" :> "g") @@ ("H" :> "h") @@ ("I" :> "i") @@ ("J" :> "j")
    @@ ("K" :> "k") @@ ("L" :> "l") @@ ("M" :> "m") @@ ("N" :> "n") @@ ("O" :> "o")
    @@ ("P" :> "p") @@ ("Q" :> "q") @@ ("R" :> "r") @@ ("S" :> "s") @@ ("T" :> "t")
    @@ ("U" :> "u") @@ ("V" :> "v") @@ ("W" :> "w") @@ ("X" :> "x") @@ ("Y" :> "y")
    @@ ("Z" :> "z")

LowerChar(c) == IF c \in DOMAIN LowerOf THEN LowerOf[c] ELSE c

RECURSIVE lower(_)
lower(s) == IF s = <<>> THEN <<>> ELSE <<LowerChar(Head(s))>> \o lower(Tail(s))

\* str.strip(): leading and trailing blanks removed.
strip(s) ==
    LET inked == {i \in 1..Len(s) : s[i] # " "}
    IN  IF inked = {} THEN <<>>
        ELSE LET lo == CHOOSE i \in inked : \A j \in inked : i <= j
                 hi == CHOOSE i \in inked : \A j \in inked : j <= i
             IN  SubSeq(s, lo, hi)

\* Python's order on str: code point by code point, a prefix first.
RECURSIVE TextLess(_, _)
TextLess(a, b) ==
    IF b = <<>> THEN FALSE
    ELSE IF a = <<>> THEN TRUE
    ELSE IF Head(a) # Head(b) THEN Ord(Head(a)) < Ord(Head(b))
    ELSE TextLess(Tail(a), Tail(b))

\* The elements of seq at the positions in keep, in their order.
Take(seq, keep) ==
    [n \in 1..Cardinality(keep) |->
        seq[CHOOSE i \in keep : Cardinality({j \in keep : j < i}) = n - 1]]

(***************************************************************************)
(* schema.py                                                               *)
(***************************************************************************)
\* lowered = {c.lower(): c for c in src_cols}: the dict filled column by
\* column, a later column replacing an earlier one under the same key.
RECURSIVE lowered(_)
lowered(cols) ==
    IF cols = <<>> THEN [x \in {} |-> x]
    ELSE LET c == cols[Len(cols)]
         IN  (lower(c) :> c) @@ lowered(SubSeq(cols, 1, Len(cols) - 1))

\* The loop over the aliases, in their order.
RECURSIVE FirstHit(_, _)
FirstHit(low, aliases) ==
    IF aliases = <<>> THEN None
    ELSE IF Has(low, lower(Head(aliases))) THEN Str(low[lower(Head(aliases))])
    ELSE FirstHit(low, Tail(aliases))

pick_first_matching(cols, aliases) == FirstHit(lowered(cols), aliases)

\* The check with the bounds excluded.
ensure_range_lat_lon_strict(lat, lon) ==
    /\ lat.k = "num"
    /\ lon.k = "num"
    /\ -90 < lat.n /\ lat.n < 90
    /\ -180 < lon.n /\ lon.n < 180

LatMax == 90
LonMax == 180

\* float(x) raises for a missing or non-numeric value; NaN fails every
\* comparison.
ensure_range_lat_lon(lat, lon) ==
    /\ lat.k = "num"
    /\ lon.k = "num"
    /\ -LatMax <= lat.n /\ lat.n <= LatMax
    /\ -LonMax <= lon.n /\ lon.n <= LonMax

(***************************************************************************)
(* gps.py: conversions                                                     *)
(***************************************************************************)
RECURSIVE DigitsValue(_)
DigitsValue(s) ==
    IF s = <<>> THEN 0
    ELSE 10 * DigitsValue(SubSeq(s, 1, Len(s) - 1))
         + (CHOOSE d \in 0..9 : Digits[d + 1] = s[Len(s)])

IsDigits(s) ==
    /\ s # <<>>
    /\ \A i \in 1..Len(s) : \E d \in 1..Len(Digits) : Digits[d] = s[i]

\* pd.to_numeric(errors="coerce") on one cell: a number stays, a text of
\* digits is read, anything else becomes missing.
to_numeric(c) ==
    IF c.k = "num" THEN c
    ELSE IF c.k = "str" /\ IsDigits(c.s) THEN Num(DigitsValue(c.s))
    ELSE Na

\* pd.to_datetime(errors="coerce") on one cell: a wall-clock time stays,
\* anything else becomes NaT.
to_datetime(c) == IF c.k = "dt" THEN c ELSE Na

\* UTC offset of the fixed-offset zones used as input_tz, in hours.
TzOffsetHours(tz) ==
    CASE tz = "UTC" -> 0
      [] tz = "Etc/GMT-2" -> 2
      [] tz = "Etc/GMT+5" -> -5

\* The conversion with the offset applied the wrong way round.
LocalToUtc_wrong_sign(t, tz) == t + TzOffsetHours(tz) * 3600 * TicksPerSec

\* tz_localize(input_tz) then tz_convert("UTC"): the instant, in ticks.
LocalToUtc(t, tz) == t - TzOffsetHours(tz) * 3600 * TicksPerSec

\* strftime("%Y-%m-%dT%H:%M:%SZ") of a UTC instant: the date (as a day
\* number), hour, minute and whole second, and the literal Z.
strftime(t) ==
    LET secs == t \div TicksPerSec
        rem == secs % 86400
    IN  [k |-> "ts", date |-> secs \div 86400, H |-> rem \div 3600,
         M |-> (rem % 3600) \div 60, S |-> rem % 60, suffix |-> "Z"]

\* One value of _parse_iso_or_local_to_utc.
parse_iso_or_local_to_utc(c, is_iso_utc, input_tz) ==
    LET dt == to_datetime(c)
    IN  IF IsNa(dt) THEN Na
        ELSE IF is_iso_utc THEN strftime(dt.t)
        ELSE strftime(LocalToUtc(dt.t, input_tz))

\* One value of _build_ts_from_start_plus_seconds.
build_ts_from_start_plus_seconds(sec, start_cell, input_tz) ==
    LET start == LocalToUtc(to_datetime(start_cell).t, input_tz)
        seconds == to_numeric(sec)
    IN  IF IsNa(seconds) THEN Na ELSE strftime(start + seconds.n)

\* The order of the formatted timestamps as strings: fixed-width fields.
TsLess(a, b) ==
    \/ a.date < b.date
    \/ a.date = b.date /\ a.H < b.H
    \/ a.date = b.date /\ a.H = b.H /\ a.M < b.M
    \/ a.date = b.date /\ a.H = b.H /\ a.M = b.M /\ a.S < b.S

(***************************************************************************)
(* gps.py: normalize_gps                                                   *)
(***************************************************************************)
EmptyMap == [x \in {} |-> x]

NoError == [type |-> "none"]

\* d.get(key, default)
Get(d, key, default) == IF Has(d, key) THEN d[key] ELSE default

time_cfg == Get(mapping, "time", EmptyMap)
units_cfg == Get(mapping, "units", EmptyMap)
colmap == Get(mapping, "columns", EmptyMap)

IsParquet == lower(file.suffix) \in {<<".","p","a","r","q","u","e","t">>, <<".","p","q">>}

\* bool(src) of a resolver result: None and the empty text are false.
Truthy(src) == src.k = "str" /\ src.s # <<>>

\* The strategy chosen when either key is present.
UseStopwatch_either_key ==
    Has(time_cfg, "start_time_header") \/ Has(time_cfg, "seconds_column")

\* Line 125.
UseStopwatch ==
    Has(time_cfg, "start_time_header") /\ Has(time_cfg, "seconds_column")

\* Lines 98-125: configuration sections, header block, column resolution,
\* the vehicle_id default and the timestamp strategy.
Resolve ==
    /\ pc = "start"
    /\ header_kv' = IF IsParquet THEN EmptyMap ELSE file.header
    /\ LET src == [t \in DOMAIN colmap |->
                      pick_first_matching(file.columns, colmap[t])]
           hit == {t \in DOMAIN colmap : Truthy(src[t])}
       IN  resolved' = [t \in hit \cup {"vehicle_id"} |->
                           IF t \in hit THEN src[t] ELSE None]
    /\ use_stopwatch' = UseStopwatch
    /\ pc' = "resolved"
    /\ UNCHANGED <<file, mapping, df, before, table, report, error,
                   src_cols, candidates, ret>>

\* Lines 127-130.
need == <<"lat", "lon">> \o (IF use_stopwatch THEN <<>> ELSE <<"ts">>)

NotResolved(t) == ~Has(resolved, t) /\ t # "ts"

NotInResolved(t) == ~Has(resolved, t)

\* The list without the exclusion of ts.
missing_with_ts == SelectSeq(need, NotInResolved)

missing == SelectSeq(need, NotResolved)

Raise(e) ==
    /\ error' = e
    /\ pc' = "failed"
    /\ UNCHANGED <<file, mapping, header_kv, resolved, use_stopwatch, df,
                   before, table, report, src_cols, candidates, ret>>

\* Lines 131-134.
RaiseMissingMappings ==
    /\ pc = "resolved"
    /\ missing # <<>>
    /\ Raise([type |-> "ValueError", what |-> "Missing required column mappings",
              missing |-> missing, columns |-> file.columns])

\* raw[col] at row i: the cell under the column of that name.
raw(i, col) ==
    file.rows[i][CHOOSE j \in 1..Len(file.columns) : file.columns[j] = col]

\* Line 139: astype("string").str.strip() on a text or missing cell.
StripText(c) == IF c.k = "str" THEN Str(strip(c.s)) ELSE Na

\* The speed with an unparseable value filled with zero.
SpeedValue_zero_fill(c) ==
    LET speed == to_numeric(c)
    IN  IF IsNa(speed) THEN Num(0)
        ELSE IF Get(units_cfg, "speed_is_kmh", FALSE) THEN Num(5 * speed.n)
        ELSE Num(18 * speed.n)

\* Lines 148-151: speed in units of 1/18 m/s (x / 3.6 = 5x / 18).
SpeedValue(c) ==
    LET speed == to_numeric(c)
    IN  IF IsNa(speed) THEN Na
        ELSE IF Get(units_cfg, "speed_is_kmh", FALSE) THEN Num(5 * speed.n)
        ELSE Num(18 * speed.n)

\* Lines 137-161: one row of the frame, before its timestamp.
FrameRow(i) ==
    [idx |-> i,
         vehicle_id |-> IF resolved["vehicle_id"] # None
                        THEN StripText(raw(i, resolved["vehicle_id"].s))
                        ELSE Str(file.stem),
         lat |-> to_numeric(raw(i, resolved["lat"].s)),
         lon |-> to_numeric(raw(i, resolved["lon"].s)),
         speed_mps |-> IF Has(resolved, "speed")
                       THEN SpeedValue(raw(i, resolved["speed"].s)) ELSE Na,
         heading_deg |-> IF Has(resolved, "heading")
                         THEN to_numeric(raw(i, resolved["heading"].s)) ELSE Na]

WithTs(row, ts) ==
    [idx |-> row.idx, vehicle_id |-> row.vehicle_id, ts |-> ts, lat |-> row.lat,
     lon |-> row.lon, speed_mps |-> row.speed_mps, heading_deg |-> row.heading_deg]

input_tz == Get(time_cfg, "input_tz", "UTC")

seconds_col == time_cfg["seconds_column"]

start_key == time_cfg["start_time_header"]

\* not header_kv[start_key]: the empty text.
EmptyValue(v) == v.k = "str" /\ v.s = <<>>

\* start_key not in header_kv or not header_kv[start_key]
HeaderMissing ==
    IF Has(header_kv, start_key) THEN EmptyValue(header_kv[start_key]) ELSE TRUE

InColumns(c) == \E j \in 1..Len(file.columns) : file.columns[j] = c

\* Lines 168-171.
RaiseSecondsColumn ==
    /\ pc = "resolved"
    /\ missing = <<>>
    /\ use_stopwatch
    /\ ~InColumns(seconds_col)
    /\ Raise([type |-> "ValueError", what |-> "seconds_column not found",
              seconds_col |-> seconds_col, columns |-> file.columns])

\* Lines 172-175.
RaiseHeader ==
    /\ pc = "resolved"
    /\ missing = <<>>
    /\ use_stopwatch
    /\ InColumns(seconds_col)
    /\ HeaderMissing
    /\ Raise([type |-> "ValueError", what |-> "Header not found",
              start_key |-> start_key, available |-> header_kv])

\* Lines 180-183.
RaiseNoTimestamp ==
    /\ pc = "resolved"
    /\ missing = <<>>
    /\ ~use_stopwatch
    /\ ~Has(resolved, "ts")
    /\ Raise([type |-> "ValueError", what |-> "No timestamp column mapped"])

Built(rows) ==
    /\ df' = rows
    /\ pc' = "built"
    /\ UNCHANGED <<file, mapping, header_kv, resolved, use_stopwatch, before,
                   table, report, error, src_cols, candidates, ret>>

\* Lines 137-161 and 176-178: the frame of stopwatch mode.
StopwatchFrame ==
    [i \in 1..Len(file.rows) |->
        WithTs(FrameRow(i),
               build_ts_from_start_plus_seconds(
                   raw(i, seconds_col), header_kv[start_key], input_tz))]

BuildStopwatch ==
    /\ pc = "resolved"
    /\ missing = <<>>
    /\ use_stopwatch
    /\ InColumns(seconds_col)
    /\ ~HeaderMissing
    /\ Built(StopwatchFrame)

\* Lines 137-161 and 184-188: the frame of direct mode.
DirectFrame ==
    [i \in 1..Len(file.rows) |->
        WithTs(FrameRow(i),
               parse_iso_or_local_to_utc(
                   raw(i, resolved["ts"].s),
                   Get(time_cfg, "is_iso_utc", FALSE), input_tz))]

\* The frame built by lines 137-188, in the mode of the run.
Frame == IF use_stopwatch THEN StopwatchFrame ELSE DirectFrame

BuildDirect ==
    /\ pc = "resolved"
    /\ missing = <<>>
    /\ ~use_stopwatch
    /\ Has(resolved, "ts")
    /\ Built(DirectFrame)

\* Line 193: dropna(subset=["vehicle_id", "ts", "lat", "lon"]).
HasRequired(r) ==
    ~IsNa(r.vehicle_id) /\ ~IsNa(r.ts) /\ ~IsNa(r.lat) /\ ~IsNa(r.lon)

\* The filter with the row count taken after it.
Filter_counts_after ==
    /\ pc = "built"
    /\ LET inrange == {i \in 1..Len(df) : ensure_range_lat_lon(df[i].lat, df[i].lon)}
       IN  /\ df' = Take(df, {i \in inrange : HasRequired(df[i])})
           /\ before' = Cardinality({i \in inrange : HasRequired(df[i])})
    /\ pc' = "filtered"
    /\ UNCHANGED <<file, mapping, header_kv, resolved, use_stopwatch, table,
                   report, error, src_cols, candidates, ret>>

\* Lines 191-193: the row count, the validity filter, the missing-value filter.
Filter ==
    /\ pc = "built"
    /\ before' = Len(df)
    /\ LET inrange == {i \in 1..Len(df) : ensure_range_lat_lon(df[i].lat, df[i].lon)}
       IN  df' = Take(df, {i \in inrange : HasRequired(df[i])})
    /\ pc' = "filtered"
    /\ UNCHANGED <<file, mapping, header_kv, resolved, use_stopwatch, table,
                   report, error, src_cols, candidates, ret>>

\* The sort key order of sort_values(["vehicle_id", "ts"]).
KeyLess(a, b) ==
    \/ TextLess(a.vehicle_id.s, b.vehicle_id.s)
    \/ a.vehicle_id = b.vehicle_id /\ TsLess(a.ts, b.ts)

\* The sort with equal keys in reverse order.
sort_values_unstable(rows) ==
    LET n == Len(rows)
        Rank(i) == Cardinality({j \in 1..n : KeyLess(rows[j], rows[i])})
                   + Cardinality({j \in (i + 1)..n :
                                    ~KeyLess(rows[j], rows[i])
                                    /\ ~KeyLess(rows[i], rows[j])})
                   + 1
    IN  [p \in 1..n |-> rows[CHOOSE i \in 1..n : Rank(i) = p]]

\* Line 194: kind="stable": among equal keys the earlier row stays first.
sort_values(rows) ==
    LET n == Len(rows)
        Rank(i) == Cardinality({j \in 1..n : KeyLess(rows[j], rows[i])})
                   + Cardinality({j \in 1..(i - 1) :
                                    ~KeyLess(rows[j], rows[i])
                                    /\ ~KeyLess(rows[i], rows[j])})
                   + 1
    IN  [p \in 1..n |-> rows[CHOOSE i \in 1..n : Rank(i) = p]]

SameSubset(a, b) ==
    a.vehicle_id = b.vehicle_id /\ a.ts = b.ts /\ a.lat = b.lat /\ a.lon = b.lon

\* The de-duplication keeping the last occurrence.
drop_duplicates_keep_last(rows) ==
    Take(rows, {i \in 1..Len(rows) :
                   \A j \in (i + 1)..Len(rows) : ~SameSubset(rows[j], rows[i])})

\* Line 195: keep="first".
drop_duplicates(rows) ==
    Take(rows, {i \in 1..Len(rows) :
                   \A j \in 1..(i - 1) : ~SameSubset(rows[j], rows[i])})

\* Lines 194-195.
SortDedupe ==
    /\ pc = "filtered"
    /\ df' = drop_duplicates(sort_values(df))
    /\ pc' = "cleaned"
    /\ UNCHANGED <<file, mapping, header_kv, resolved, use_stopwatch, before,
                   table, report, error, src_cols, candidates, ret>>

NaN == [k |-> "nan"]

\* Line 202: isna().mean() * 100.0, as the fraction num/den; the mean of no
\* value is NaN.
pct_missing_speed(rows) ==
    IF Len(rows) = 0 THEN NaN
    ELSE [k |-> "float",
          num |-> 100 * Cardinality({i \in 1..Len(rows) : IsNa(rows[i].speed_mps)}),
          den |-> Len(rows)]

\* Lines 223-225: the fixed column order, the index reset.
Columns == <<"vehicle_id", "ts", "lat", "lon", "speed_mps", "heading_deg">>

Finalize(rows) ==
    [columns |-> Columns,
     index |-> [p \in 1..Len(rows) |-> p - 1],
     rows |-> [p \in 1..Len(rows) |->
                 [c \in {Columns[j] : j \in 1..Len(Columns)} |->
                    CASE c = "vehicle_id" -> rows[p].vehicle_id
                      [] c = "ts" -> rows[p].ts
                      [] c = "lat" -> rows[p].lat
                      [] c = "lon" -> rows[p].lon
                      [] c = "speed_mps" -> rows[p].speed_mps
                      [] c = "heading_deg" -> rows[p].heading_deg]]]

\* Lines 197-226.
Return ==
    /\ pc = "cleaned"
    /\ report' = [rows_in |-> before,
                  rows_out |-> Len(df),
                  dropped_rows |-> before - Len(df),
                  pct_missing_speed |-> pct_missing_speed(df)]
    /\ table' = Finalize(df)
    /\ pc' = "done"
    /\ UNCHANGED <<file, mapping, header_kv, resolved, use_stopwatch, df, before,
                   error, src_cols, candidates, ret>>

(***************************************************************************)
(* The resolver called on its own.                                         *)
(***************************************************************************)
CallPick ==
    /\ pc = "pick"
    /\ ret' = pick_first_matching(src_cols, candidates)
    /\ pc' = "picked"
    /\ UNCHANGED <<file, mapping, header_kv, resolved, use_stopwatch, df, before,
                   table, report, error, src_cols, candidates>>

(***************************************************************************)
(* Inputs.                                                                 *)
(***************************************************************************)
\* Wall-clock time h:m:s plus frac ticks, in ticks.
Clock(h, m, s, frac) == ((h * 60 + m) * 60 + s) * TicksPerSec + frac

T1 == Clock(7, 23, 50, 3)
T0 == Clock(0, 10, 0, 0)

ColVeh == <<"V","e","h">>
ColTime == <<"T","i","m","e">>
ColSec == <<"S","e","c">>
ColLat == <<"L","a","t">>
ColLon == <<"L","o","n">>
ColKmh == <<"K","m","h">>
ColHdg == <<"H","d","g">>

VendorColumns == <<ColVeh, ColTime, ColSec, ColLat, ColLon, ColKmh, ColHdg>>

\* A row of the file: one cell per column of VendorColumns.
Row(v, t, sec, la, lo, sp, hd) == <<v, t, sec, la, lo, sp, hd>>

VehA == Str(<<"A"," ">>)
VehB == Str(<<"B">>)
Junk == Str(<<"x">>)

\* Rows with every required field good: two vehicles, two times, two
\* positions on the bounds (one latitude written as text).
GoodRows ==
    {Row(v, t[1], t[2], c[1], c[2], Num(36), Num(90)) :
        v \in {VehA, VehB},
        t \in {<<Dt(T1), Num(0)>>, <<Dt(T0), Num(14)>>},
        c \in {<<Num(-90), Num(-180)>>, <<Str(<<"9","0">>), Num(180)>>}}

\* Rows repeating a key of GoodRows with another speed and heading: the
\* first after stripping the id and dropping the fraction of a second.
RepeatRows ==
    {Row(Str(<<"A">>), Dt(T1 + 4), Num(4), Num(-90), Num(-180), Junk, Na),
     Row(VehB, Dt(T0), Num(14), Num(90), Num(180), Na, Junk)}

\* Rows with one bad required field.
BadRows ==
    {Row(VehB, Dt(T1), Num(0), Num(91), Num(0), Num(36), Num(90)),
     Row(VehB, Dt(T1), Num(0), Num(-91), Num(0), Num(36), Num(90)),
     Row(VehB, Dt(T1), Num(0), Num(0), Num(181), Num(36), Num(90)),
     Row(VehB, Dt(T1), Num(0), Num(0), Num(-181), Num(36), Num(90)),
     Row(VehB, Dt(T1), Num(0), Junk, Num(180), Num(36), Num(90)),
     Row(VehB, Dt(T1), Num(0), Num(90), Na, Num(36), Num(90)),
     Row(Na, Dt(T1), Num(0), Num(90), Num(180), Num(36), Num(90)),
     Row(VehB, Junk, Junk, Num(90), Num(180), Num(36), Num(90))}

DataRows == GoodRows \cup RepeatRows \cup BadRows

SampleRows ==
    <<Row(VehB, Dt(T1), Num(0), Num(90), Num(180), Num(36), Num(90)),
      Row(VehA, Dt(T0), Num(14), Num(-90), Num(-180), Junk, Na),
      Row(VehB, Dt(T1), Num(4), Num(91), Num(0), Num(36), Num(90))>>

StartTime == "StartTime"

HeaderOk == (StartTime :> Dt(T1))
HeaderEmptyValue == (StartTime :> Str(<<>>))

Csv == <<".","c","s","v">>
Parquet == <<".","P","a","r","q","u","e","t">>

File(suffix, header, rows) ==
    [suffix |-> suffix, stem |-> <<"g","p","s">>, header |-> header,
     columns |-> VendorColumns, rows |-> rows]

\* A mapping document: a section is present iff it has a key.
Mapping(time, units, columns) ==
    LET sections == [time |-> time, units |-> units, columns |-> columns]
    IN  [sec \in {x \in {"time", "units", "columns"} : sections[x] # EmptyMap}
            |-> sections[sec]]

AllColumns ==
    ("vehicle_id" :> <<<<"v","e","h","i","c","l","e">>, <<"V","E","H">>>>)
    @@ ("lat" :> <<<<"l","a","t","i","t","u","d","e">>, <<"L","A","T">>>>)
    @@ ("lon" :> <<<<"l","o","n">>>>)
    @@ ("speed" :> <<<<"K","M","H">>>>)
    @@ ("heading" :> <<<<"h","d","g">>>>)
    @@ ("ts" :> <<<<"t","i","m","e">>>>)

Without(f, keys) == [x \in DOMAIN f \ keys |-> f[x]]

\* The configurations the data cases run under: both timestamp modes, with
\* and without a vehicle id, a speed and a heading column.
DataMappings ==
    {Mapping(("input_tz" :> "Etc/GMT-2"), ("speed_is_kmh" :> TRUE), AllColumns),
     Mapping(("is_iso_utc" :> TRUE), EmptyMap,
             Without(AllColumns, {"vehicle_id", "speed"})),
     Mapping(("start_time_header" :> StartTime) @@ ("seconds_column" :> ColSec)
             @@ ("input_tz" :> "Etc/GMT+5"),
             EmptyMap, Without(AllColumns, {"vehicle_id", "ts"})),
     Mapping(("start_time_header" :> StartTime) @@ ("seconds_column" :> ColSec),
             ("speed_is_kmh" :> FALSE), Without(AllColumns, {"heading"}))}

Tables == UNION {[1..n -> DataRows] : n \in 1..MaxRows}

\* The configuration cases: every combination of absent, unmatched and
\* matched aliases and of the time keys, over one sample table.
TimeOptions ==
    {s @@ c : s \in {EmptyMap, ("start_time_header" :> StartTime)},
              c \in {EmptyMap, ("seconds_column" :> ColSec),
                     ("seconds_column" :> <<"s","e","c">>)}}

ColumnOptions ==
    {v @@ la @@ lo @@ sp @@ hd @@ ts :
        v \in {EmptyMap, Without(AllColumns, DOMAIN AllColumns \ {"vehicle_id"})},
        la \in {EmptyMap, ("lat" :> <<<<"y">>>>),
                Without(AllColumns, DOMAIN AllColumns \ {"lat"})},
        lo \in {("lon" :> <<<<"l","n","g">>, <<"l","o">>>>),
                Without(AllColumns, DOMAIN AllColumns \ {"lon"})},
        sp \in {EmptyMap, Without(AllColumns, DOMAIN AllColumns \ {"speed"})},
        hd \in {EmptyMap, Without(AllColumns, DOMAIN AllColumns \ {"heading"})},
        ts \in {EmptyMap, Without(AllColumns, DOMAIN AllColumns \ {"ts"})}}

SampleFiles ==
    {File(Csv, HeaderOk, SampleRows), File(Csv, HeaderEmptyValue, SampleRows),
     File(Csv, EmptyMap, SampleRows), File(Parquet, EmptyMap, SampleRows)}

Idle ==
    /\ header_kv = EmptyMap
    /\ resolved = EmptyMap
    /\ use_stopwatch = FALSE
    /\ df = <<>>
    /\ before = 0
    /\ table = None
    /\ report = None
    /\ error = NoError

InitData ==
    /\ \E rows \in Tables : file = File(Csv, HeaderOk, rows)
    /\ mapping \in DataMappings

InitConfig ==
    /\ file \in SampleFiles
    /\ \E t \in TimeOptions, c \in ColumnOptions : mapping = Mapping(t, EmptyMap, c)

Init ==
    /\ InitData \/ InitConfig
    /\ pc = "start"
    /\ Idle
    /\ src_cols = <<>>
    /\ candidates = <<>>
    /\ ret = None

Next ==
    \/ Resolve
    \/ RaiseMissingMappings
    \/ RaiseSecondsColumn
    \/ RaiseHeader
    \/ RaiseNoTimestamp
    \/ BuildStopwatch
    \/ BuildDirect
    \/ Filter
    \/ SortDedupe
    \/ Return

Spec == Init /\ [][Next]_vars

\* Column names and aliases for the resolver on its own: names that differ
\* only in case, and a name that is part of another.
PickNames == {<<"a">>, <<"A">>, <<"a","b">>, <<"A","b">>, <<"b">>}
PickAliases == {<<"a">>, <<"A">>, <<"B">>, <<"a","B">>}

PickInit ==
    /\ src_cols \in UNION {[1..n -> PickNames] : n \in 0..MaxCols}
    /\ candidates \in UNION {[1..n -> PickAliases] : n \in 0..MaxAliases}
    /\ ret = None
    /\ pc = "pick"
    /\ Idle
    /\ file = File(Csv, EmptyMap, <<>>)
    /\ mapping = EmptyMap

PickNext == CallPick

PickSpec == PickInit /\ [][PickNext]_vars

(***************************************************************************)
(* Properties.  The rows of the file are judged on their cells, the rows    *)
(* of the returned table on their values.                                  *)
(***************************************************************************)
Returned == pc = "done"

Cleaning == pc \in {"filtered", "cleaned", "done"}

PastValidation == pc \notin {"start", "resolved", "pick", "picked"}

\* The file rows still in the frame.
OutIdx == {df[p].idx : p \in 1..Len(df)}

\* The returned table holds the rows of the cleaned frame, in its order.
TableIsFrame ==
    /\ Len(table.rows) = Len(df)
    /\ \A p \in 1..Len(df) :
          /\ table.rows[p]["vehicle_id"] = df[p].vehicle_id
          /\ table.rows[p]["ts"] = df[p].ts
          /\ table.rows[p]["lat"] = df[p].lat
          /\ table.rows[p]["lon"] = df[p].lon
          /\ table.rows[p]["speed_mps"] = df[p].speed_mps
          /\ table.rows[p]["heading_deg"] = df[p].heading_deg

Numeric(c) == c.k = "num" \/ (c.k = "str" /\ IsDigits(c.s))

NumberOf(c) == IF c.k = "num" THEN c.n ELSE DigitsValue(c.s)

InBounds(la, lo) == la \in -90..90 /\ lo \in -180..180

LatCell(i) == raw(i, resolved["lat"].s)

LonCell(i) == raw(i, resolved["lon"].s)

BadCoordinates(i) ==
    IF Numeric(LatCell(i)) /\ Numeric(LonCell(i))
    THEN ~InBounds(NumberOf(LatCell(i)), NumberOf(LonCell(i)))
    ELSE TRUE

VehicleMissing(i) ==
    IF resolved["vehicle_id"] = None THEN FALSE
    ELSE raw(i, resolved["vehicle_id"].s).k = "na"

TsMissing(i) ==
    IF use_stopwatch THEN ~Numeric(raw(i, seconds_col))
    ELSE raw(i, resolved["ts"].s).k # "dt"

BadRow(i) == BadCoordinates(i) \/ VehicleMissing(i) \/ TsMissing(i)

OnBoundRow(i) ==
    /\ ~BadRow(i)
    /\ NumberOf(LatCell(i)) \in {-90, 90}
    /\ NumberOf(LonCell(i)) \in {-180, 180}

Key(r) == <<r.vehicle_id, r.ts, r.lat, r.lon>>

TableKey(t) == <<t["vehicle_id"], t["ts"], t["lat"], t["lon"]>>

\* A good row that repeats the key of an earlier good row.
RepeatedRow(i) ==
    /\ ~BadRow(i)
    /\ \E j \in 1..(i - 1) : ~BadRow(j) /\ Key(Frame[j]) = Key(Frame[i])

FileRows == 1..Len(file.rows)

\* C1: every row of the returned table has a vehicle_id, a ts, a lat in
\* [-90, 90] and a lon in [-180, 180]; a file row with a missing, non-numeric
\* or out-of-range lat or lon, or a missing vehicle_id or ts, is in no frame
\* after the filters; a row on the bounds with its required fields present
\* passes the filters.
C1_ValidRowsOnly ==
    /\ Returned =>
          /\ TableIsFrame
          /\ \A p \in 1..Len(table.rows) :
                LET t == table.rows[p]
                IN  /\ t["vehicle_id"].k = "str"
                    /\ t["ts"].k = "ts"
                    /\ t["lat"].k = "num"
                    /\ t["lon"].k = "num"
                    /\ InBounds(t["lat"].n, t["lon"].n)
    /\ Cleaning => \A i \in FileRows : BadRow(i) => i \notin OutIdx
    /\ pc = "filtered" => \A i \in FileRows : OnBoundRow(i) => i \in OutIdx

\* A run that returned a row lying on the bounds and dropped a bad row.
C1_Witness ==
    /\ Returned
    /\ \E i \in FileRows : OnBoundRow(i) /\ i \in OutIdx
    /\ \E i \in FileRows : BadCoordinates(i)

Survives(r) ==
    /\ r.vehicle_id.k = "str"
    /\ r.ts.k = "ts"
    /\ r.lat.k = "num"
    /\ r.lon.k = "num"
    /\ InBounds(r.lat.n, r.lon.n)

Survivors == {i \in FileRows : Survives(Frame[i])}

\* C2: no two rows of the returned table share (vehicle_id, ts, lat, lon);
\* every such key of a row that passes the filters is carried by exactly one
\* returned row, which is the earliest file row with that key (its
\* speed_mps and heading_deg are kept).
C2_FirstOfEachKey ==
    Returned =>
        /\ TableIsFrame
        /\ \A p, q \in 1..Len(table.rows) :
              p # q => TableKey(table.rows[p]) # TableKey(table.rows[q])
        /\ \A i \in Survivors :
              LET same == {j \in Survivors : Key(Frame[j]) = Key(Frame[i])}
                  first == CHOOSE j \in same : \A h \in same : j <= h
                  held == {p \in 1..Len(table.rows) :
                              TableKey(table.rows[p]) = Key(Frame[i])}
              IN  /\ Cardinality(held) = 1
                  /\ \A p \in held :
                        /\ df[p].idx = first
                        /\ table.rows[p]["speed_mps"] = Frame[first].speed_mps
                        /\ table.rows[p]["heading_deg"] = Frame[first].heading_deg

\* A run whose file holds two good rows with one key and different speeds.
C2_Witness ==
    /\ Returned
    /\ \E i, j \in Survivors :
          /\ i < j
          /\ Key(Frame[i]) = Key(Frame[j])
          /\ Frame[i].speed_mps # Frame[j].speed_mps

\* The formatted timestamp as a count of seconds.
SecondsOf(ts) == ((ts.date * 24 + ts.H) * 60 + ts.M) * 60 + ts.S

\* C3: the returned rows are ordered by vehicle_id, then ts, non-decreasing;
\* rows with equal (vehicle_id, ts) keep their file order; the columns are
\* vehicle_id, ts, lat, lon, speed_mps, heading_deg and the rows are
\* numbered 0..n-1.
C3_SortedStable ==
    Returned =>
        /\ TableIsFrame
        /\ \A p, q \in 1..Len(table.rows) :
              p < q =>
                LET a == table.rows[p]
                    b == table.rows[q]
                IN  /\ ~TextLess(b["vehicle_id"].s, a["vehicle_id"].s)
                    /\ a["vehicle_id"] = b["vehicle_id"]
                          => SecondsOf(a["ts"]) <= SecondsOf(b["ts"])
                    /\ (a["vehicle_id"] = b["vehicle_id"] /\ a["ts"] = b["ts"])
                          => df[p].idx < df[q].idx
        /\ table.columns
              = <<"vehicle_id", "ts", "lat", "lon", "speed_mps", "heading_deg">>
        /\ DOMAIN table.index = 1..Len(table.rows)
        /\ \A p \in 1..Len(table.rows) : table.index[p] = p - 1

\* A run in which the sort moved a later file row ahead of an earlier one.
C3_Witness ==
    /\ Returned
    /\ \E p, q \in 1..Len(df) : p < q /\ df[p].idx > df[q].idx

\* A target resolves iff one of its aliases equals a column name, case aside.
Resolves(t) ==
    /\ Has(colmap, t)
    /\ \E a \in 1..Len(colmap[t]), c \in 1..Len(file.columns) :
          lower(colmap[t][a]) = lower(file.columns[c])

\* The error kind of the configuration checks.
ConfigurationError == "ValueError"

Unresolved == SelectSeq(<<"lat", "lon">>, LAMBDA t : ~Resolves(t))

\* C4: when lat or lon does not resolve, in either timestamp mode, the run
\* fails with a ConfigurationError that lists exactly the unresolved ones
\* among lat and lon and the columns of the raw table, and returns no table
\* and no report.
C4_MissingMappings ==
    (PastValidation /\ Unresolved # <<>>) =>
        /\ pc = "failed"
        /\ error.type = ConfigurationError
        /\ error.missing = Unresolved
        /\ error.columns = file.columns
        /\ table = None
        /\ report = None

\* A stopwatch run that failed with both lat and lon unresolved.
C4_Witness ==
    /\ pc = "failed"
    /\ use_stopwatch
    /\ Unresolved = <<"lat", "lon">>
    /\ error.missing = <<"lat", "lon">>

BothTimeKeys ==
    {"start_time_header", "seconds_column"} \subseteq DOMAIN time_cfg

\* The header block has no start value under the configured key.
NoStartValue ==
    IF Has(header_kv, time_cfg["start_time_header"])
    THEN header_kv[time_cfg["start_time_header"]] = Str(<<>>)
    ELSE TRUE

NoSecondsColumn ==
    \A c \in 1..Len(file.columns) : file.columns[c] # time_cfg["seconds_column"]

\* C5: stopwatch mode iff both time keys are configured; in direct mode an
\* unresolved ts, and in stopwatch mode a start key absent from the header
\* block or with an empty value or a seconds column that is no column of the
\* table, fails the run with a ConfigurationError, before the cleaning and
\* with no table and no report; in stopwatch mode an unresolved ts alone
\* does not fail the run.
C5_TimestampStrategy ==
    /\ pc \in {"resolved", "failed", "built", "filtered", "cleaned", "done"}
          => (use_stopwatch <=> BothTimeKeys)
    /\ (PastValidation /\ ~BothTimeKeys /\ ~Resolves("ts"))
          => pc = "failed" /\ error.type = ConfigurationError
    /\ (PastValidation /\ BothTimeKeys)
          => IF NoSecondsColumn \/ NoStartValue
             THEN pc = "failed" /\ error.type = ConfigurationError
             ELSE (Resolves("lat") /\ Resolves("lon")) => pc # "failed"
    /\ pc = "failed"
          => /\ table = None
             /\ report = None
             /\ df = <<>>
             /\ before = 0

\* A stopwatch run that failed on a start key whose header value is empty.
C5_Witness ==
    /\ pc = "failed"
    /\ BothTimeKeys
    /\ Has(header_kv, time_cfg["start_time_header"])
    /\ NoStartValue
    /\ ~NoSecondsColumn
    /\ Unresolved = <<>>

ConfigValid ==
    /\ Resolves("lat")
    /\ Resolves("lon")
    /\ IF BothTimeKeys THEN ~NoSecondsColumn /\ ~NoStartValue ELSE Resolves("ts")

Unparseable(c) == ~Numeric(c)

\* C6: under a valid configuration the run never fails, whatever the cells
\* hold; a file row with an unparseable or out-of-range coordinate, an
\* unparseable timestamp or seconds value or a repeated key is absent from
\* the returned table and counted in dropped_rows; every other row is
\* returned, with an unparseable speed or heading as a missing value.
C6_BadValuesDropped ==
    /\ (PastValidation /\ ConfigValid) => (pc # "failed" /\ error = NoError)
    /\ Returned =>
          /\ TableIsFrame
          /\ table # None /\ report # None
          /\ \A i \in FileRows : (BadRow(i) \/ RepeatedRow(i)) <=> i \notin OutIdx
          /\ report.dropped_rows
                = Cardinality({i \in FileRows : BadRow(i) \/ RepeatedRow(i)})
          /\ \A p \in 1..Len(df) :
                /\ (Has(resolved, "speed")
                    /\ Unparseable(raw(df[p].idx, resolved["speed"].s)))
                      => table.rows[p]["speed_mps"] = Na
                /\ (Has(resolved, "heading")
                    /\ Unparseable(raw(df[p].idx, resolved["heading"].s)))
                      => table.rows[p]["heading_deg"] = Na

\* A run that dropped a row with an unparseable latitude and returned a row
\* whose speed cell is unparseable.
C6_Witness ==
    /\ Returned
    /\ \E i \in FileRows : ~Numeric(LatCell(i)) /\ i \notin OutIdx
    /\ \E p \in 1..Len(df) :
          /\ Has(resolved, "speed")
          /\ raw(df[p].idx, resolved["speed"].s) = Junk
          /\ table.rows[p]["speed_mps"] = Na

\* C7: rows_in is the number of rows of the raw table, rows_out the number
\* of rows of the returned table, dropped_rows their difference, which
\* counts the bad and the repeated rows together, and 0 <= rows_out <=
\* rows_in; with no bad and no repeated row rows_out = rows_in.
C7_ReportCounts ==
    Returned =>
        /\ report.rows_in = Len(file.rows)
        /\ report.rows_out = Len(table.rows)
        /\ report.dropped_rows = report.rows_in - report.rows_out
        /\ 0 <= report.rows_out /\ report.rows_out <= report.rows_in
        /\ report.dropped_rows
              = Cardinality({i \in FileRows : BadRow(i)})
                + Cardinality({i \in FileRows : RepeatedRow(i)})
        /\ (\A i \in FileRows : ~BadRow(i) /\ ~RepeatedRow(i))
              => report.rows_out = report.rows_in

\* A run over two rows that returned one and dropped the other as repeated.
C7_Witness ==
    /\ Returned
    /\ report.rows_in = 2
    /\ report.rows_out = 1
    /\ \E i \in FileRows : RepeatedRow(i)

MissingSpeed == {p \in 1..Len(table.rows) : table.rows[p]["speed_mps"] = Na}

\* C8: with speed unresolved every returned row has a missing speed_mps
\* (likewise heading_deg), and in every run that returns, one with no
\* returned row included, pct_missing_speed is the percentage of returned
\* rows with a missing speed_mps, a number in [0, 100], 100 when speed is
\* unresolved.
C8_PctMissingSpeed ==
    Returned =>
        /\ ~Resolves("speed") => MissingSpeed = 1..Len(table.rows)
        /\ ~Resolves("heading")
              => \A p \in 1..Len(table.rows) : table.rows[p]["heading_deg"] = Na
        /\ report.pct_missing_speed.k = "float"
        /\ IF report.pct_missing_speed.k = "float"
           THEN LET pct == report.pct_missing_speed
                IN  /\ 0 <= pct.num /\ pct.num <= 100 * pct.den
                    /\ pct.num * Len(table.rows)
                          = 100 * Cardinality(MissingSpeed) * pct.den
                    /\ ~Resolves("speed") => pct.num = 100 * pct.den
           ELSE FALSE

\* C8 restricted to the runs that return at least one row.
C8_NonEmpty ==
    (Returned /\ Len(table.rows) > 0) => C8_PctMissingSpeed

Swap(cols, i, j) ==
    [n \in 1..Len(cols) |-> IF n = i THEN cols[j] ELSE IF n = j THEN cols[i] ELSE cols[n]]

Matching(cols, aliases) ==
    {a \in 1..Len(aliases) :
        \E c \in 1..Len(cols) : lower(cols[c]) = lower(aliases[a])}

\* C9: pick_first_matching returns a source column, in its own spelling,
\* that equals the earliest matching alias case aside, whatever the order of
\* the columns, and None iff no alias equals a column case aside; the
\* arguments are left as they were; for every column list, one with two
\* names differing only in case included.
C9_PickFirstMatching ==
    pc = "picked" =>
        LET hits == Matching(src_cols, candidates)
        IN  /\ (ret = None) <=> (hits = {})
            /\ hits # {} =>
                  LET a == CHOOSE x \in hits : \A h \in hits : x <= h
                  IN  /\ ret.k = "str"
                      /\ \E c \in 1..Len(src_cols) : src_cols[c] = ret.s
                      /\ lower(ret.s) = lower(candidates[a])
            /\ \A i, j \in 1..Len(src_cols) :
                  pick_first_matching(Swap(src_cols, i, j), candidates) = ret

\* C9 restricted to column lists with no two names equal case aside.
C9_DistinctCaseAside ==
    (\A i, j \in 1..Len(src_cols) :
        lower(src_cols[i]) = lower(src_cols[j]) => src_cols[i] = src_cols[j])
    => C9_PickFirstMatching

StartUtc ==
    header_kv[start_key].t - TzOffsetHours(input_tz) * 3600 * TicksPerSec

\* A formatted timestamp: the fields in their ranges and the Z.
WellFormed(ts) ==
    /\ ts.k = "ts"
    /\ ts.suffix = "Z"
    /\ ts.H \in 0..23 /\ ts.M \in 0..59 /\ ts.S \in 0..59

\* C10: in stopwatch mode a row with a numeric seconds value has the ts of
\* the header start time, taken in input_tz (UTC by default), plus that
\* many seconds, in UTC and cut to the whole second; with seconds 0 it is
\* the start time in UTC; a row with a non-numeric seconds value has no ts
\* and is dropped; every returned ts ends with Z.
C10_StopwatchTs ==
    /\ (use_stopwatch /\ pc \in {"built", "filtered", "cleaned", "done"}) =>
          \A i \in FileRows :
            LET sec == raw(i, seconds_col)
                ts == Frame[i].ts
            IN  IF Numeric(sec)
                THEN /\ WellFormed(ts)
                     /\ SecondsOf(ts) = (StartUtc + NumberOf(sec)) \div TicksPerSec
                     /\ NumberOf(sec) = 0
                           => SecondsOf(ts) = StartUtc \div TicksPerSec
                     /\ pc = "built" => df[i].ts = ts
                ELSE /\ ts = Na
                     /\ Cleaning => i \notin OutIdx
    /\ Returned => \A p \in 1..Len(table.rows) : WellFormed(table.rows[p]["ts"])

\* A stopwatch run in a zone away from UTC that returned the row with
\* seconds 0 and dropped a row with a non-numeric seconds value.
C10_Witness ==
    /\ Returned
    /\ use_stopwatch
    /\ TzOffsetHours(input_tz) # 0
    /\ \E i \in FileRows : raw(i, seconds_col) = Num(0) /\ i \in OutIdx
    /\ \E i \in FileRows : raw(i, seconds_col) = Junk

====
